---- MODULE Spec2Model ----
(***************************************************************************)
(* The Dungeon feature of bpmn-js (lib/features/dungeon/Dungeon.js), the   *)
(* import part of the Viewer and the palette provider, as state machines   *)
(* side by side: each specification below runs one of them.                *)
(*                                                                         *)
(* Dungeon: the element registry of the loaded diagram is `registry`; the  *)
(* 'display' attribute of every element's graphics is `display`; the       *)
(* viewport moved by zoomScroll is `camera`.  Every exposed operation is   *)
(* one action that runs the whole function body; it leaves the machine in  *)
(* pc = "returned" with the call, the state before the call and what the   *)
(* call logged / called / threw, and Return hands control back to the host.*)
(***************************************************************************)
EXTENDS Integers, Sequences, FiniteSets, TLC

VARIABLES
  loaded,     \* which diagram has been imported: its elements are the registry
  display,    \* id -> value of gfx.attr('display'): "" (never set), "inline", "none"
  camera,     \* viewport position kept by zoomScroll: [x, y]
  zsCalls,    \* calls made on zoomScroll during the current call
  console,    \* console.log lines written during the current call
  threw,      \* TRUE iff the current call ended by an uncaught TypeError
  pc,         \* "idle" | "returned"
  call,       \* the call that has just returned: [op, arg]
  pre         \* display and camera when that call began

VARIABLES
  vDiagram,     \* Viewer: this.diagram, an index into diagrams, 0 when unset
  vDefinitions, \* Viewer: this.definitions, 0 when unset
  vListeners,   \* Viewer: this.__listeners
  vContainer,   \* Viewer: "attached" until destroy() removes this.container
  diagrams,     \* every Diagram the viewer has created: [destroyed, bus, since]
  calls         \* the import calls made: [stage, doneCalls, diagram, cleared]

VARIABLES
  addedShape,   \* canvas: the element of the last 'shape.added' event, NoShape before the first
  addedGfx      \* canvas: the children of that element's graphics after the handler ran

VARIABLES
  paletteEntries, \* palette: what getPaletteEntries returned last, no entry before the first call
  createdShapes,  \* the shapes elementFactory.createShape has made: [type, label, isExpanded]
  paletteCalls,   \* calls made on the collaborators during the last palette step
  paletteLast     \* the last palette step: [op, entry, event]

dungeonVars == <<loaded, display, camera, zsCalls, console, threw, pc, call, pre>>

viewerVars == <<vDiagram, vDefinitions, vListeners, vContainer, diagrams, calls>>

canvasVars == <<addedShape, addedGfx>>

paletteVars == <<paletteEntries, createdShapes, paletteCalls, paletteLast>>

vars == <<dungeonVars, viewerVars, canvasVars, paletteVars>>

(***************************************************************************)
(* Bounds and constants                                                    *)
(***************************************************************************)
\* longest id list handed to showElements
MaxLen == 3

\* most Diagram objects one viewer creates
MaxDiagrams == 2

\* most import calls made on one viewer
MaxCalls == 2

\* most handlers registered through Viewer.on
MaxListeners == 2

\* most children the graphics of a shape hold when 'shape.added' fires
MaxChildren == 2

\* most shapes created from the palette
MaxShapes == 2

\* var PADDING = 75 in scrollTo
PADDING == 75

Null == "null"

\* an id no diagram registers
UnknownId == "missing"

(***************************************************************************)
(* Diagrams: what the registry holds after an import.  An element record   *)
(* has the diagram-js type, the $type of its business object (a label      *)
(* shares the business object of the element it labels), its parent, its   *)
(* position and, for a connection, source and target.                      *)
(***************************************************************************)
Root(t) ==
  [type |-> t, bo |-> t, parent |-> Null, bounds |-> FALSE, x |-> 0, y |-> 0,
   source |-> Null, target |-> Null]

Shape(t, parent, x, y) ==
  [type |-> t, bo |-> t, parent |-> parent, bounds |-> TRUE, x |-> x, y |-> y,
   source |-> Null, target |-> Null]

Label(bo, parent, x, y) ==
  [type |-> "label", bo |-> bo, parent |-> parent, bounds |-> TRUE, x |-> x, y |-> y,
   source |-> Null, target |-> Null]

Connection(parent, source, target) ==
  [type |-> "bpmn:SequenceFlow", bo |-> "bpmn:SequenceFlow", parent |-> parent,
   bounds |-> FALSE, x |-> 0, y |-> 0, source |-> source, target |-> target]

\* Process -> StartEvent A -> Task B -> EndEvent C
DiagramLinear ==
  [order |-> <<"P", "A", "B", "C", "f1", "f2">>,
   el |-> ("P" :> Root("bpmn:Process")
        @@ "A" :> Shape("bpmn:StartEvent", "P", 10, 20)
        @@ "B" :> Shape("bpmn:Task", "P", 100, 20)
        @@ "C" :> Shape("bpmn:EndEvent", "P", 200, 90)
        @@ "f1" :> Connection("P", "A", "B")
        @@ "f2" :> Connection("P", "B", "C"))]

\* StartEvent A forks to a gateway G and to a call activity T
DiagramFork ==
  [order |-> <<"P", "A", "G", "T", "g1", "g2">>,
   el |-> ("P" :> Root("bpmn:Process")
        @@ "A" :> Shape("bpmn:StartEvent", "P", 10, 20)
        @@ "G" :> Shape("bpmn:ExclusiveGateway", "P", 100, 20)
        @@ "T" :> Shape("bpmn:CallActivity", "P", 100, 90)
        @@ "g1" :> Connection("P", "A", "G")
        @@ "g2" :> Connection("P", "A", "T"))]

\* a labelled StartEvent A beside a SubProcess S that holds StartEvent A2
DiagramNested ==
  [order |-> <<"P", "A", "A_label", "S", "A2">>,
   el |-> ("P" :> Root("bpmn:Process")
        @@ "A" :> Shape("bpmn:StartEvent", "P", 10, 20)
        @@ "A_label" :> Label("bpmn:StartEvent", "P", 10, 60)
        @@ "S" :> Shape("bpmn:SubProcess", "P", 100, 20)
        @@ "A2" :> Shape("bpmn:StartEvent", "S", 110, 30))]

Diagrams == {"linear", "fork", "nested"}

\* the elements the registry holds, in the order they were added
registry ==
  CASE loaded = "linear" -> DiagramLinear
    [] loaded = "fork" -> DiagramFork
    [] loaded = "nested" -> DiagramNested

(***************************************************************************)
(* The element registry and the type predicate                             *)
(***************************************************************************)
Ids == DOMAIN registry.el

El(id) == registry.el[id]

\* elementRegistry.get(id): the element, or nothing
get(id) == IF id \in Ids THEN id ELSE Null

IsConnection(id) == id \in Ids /\ El(id).source # Null

\* element.incoming / element.outgoing, in registration order
incoming(id) == SelectSeq(registry.order, LAMBDA c : El(c).target = id)

outgoing(id) == SelectSeq(registry.order, LAMBDA c : El(c).source = id)

\* the supertypes of a business object type in the BPMN metamodel
SuperTypes(t) ==
  CASE t = "bpmn:ExclusiveGateway" -> {"bpmn:Gateway", "bpmn:FlowNode"}
    [] t = "bpmn:UserTask" -> {"bpmn:Task", "bpmn:Activity", "bpmn:FlowNode"}
    [] t = "bpmn:Task" -> {"bpmn:Activity", "bpmn:FlowNode"}
    [] t = "bpmn:CallActivity" -> {"bpmn:Activity", "bpmn:FlowNode"}
    [] t = "bpmn:SubProcess" -> {"bpmn:Activity", "bpmn:FlowNode"}
    [] t = "bpmn:StartEvent" -> {"bpmn:Event", "bpmn:FlowNode"}
    [] t = "bpmn:EndEvent" -> {"bpmn:Event", "bpmn:FlowNode"}
    [] t = "bpmn:ParallelGateway" -> {"bpmn:Gateway", "bpmn:FlowNode"}
    [] t = "bpmn:Transaction" -> {"bpmn:SubProcess", "bpmn:Activity", "bpmn:FlowNode"}
    [] t = "bpmn:IntermediateThrowEvent" -> {"bpmn:Event", "bpmn:FlowNode"}
    [] OTHER -> {}

\* is(element, type): the business object is an instance of type; false for no element
is(element, type) ==
  /\ element \in Ids
  /\ (El(element).bo = type \/ type \in SuperTypes(El(element).bo))

InList(list, x) == \E i \in 1..Len(list) : list[i] = x

(***************************************************************************)
(* The functions of Dungeon, on a machine record                           *)
(*   m = [display, camera, zsCalls, console, threw].                       *)
(* Once m.threw is set the rest of the call is skipped.                    *)
(***************************************************************************)
\* show flipping the attribute: an element that is displayed gets hidden
show_toggles(m, elementId) ==
  IF m.threw THEN m
  ELSE IF elementId \in Ids
    THEN [m EXCEPT !.display[elementId] = IF @ = "none" THEN "inline" ELSE "none"]
    ELSE m

\* show(elementId): gfx = getGraphics(elementId); if (gfx) gfx.attr('display','inline')
show(m, elementId) ==
  IF m.threw THEN m
  ELSE IF elementId \in Ids
    THEN [m EXCEPT !.display[elementId] = "inline"]
    ELSE m

\* hide(elementId): gfx.attr('display','none') with no check of gfx
hide(m, elementId) ==
  IF m.threw THEN m
  ELSE IF elementId \in Ids
    THEN [m EXCEPT !.display[elementId] = "none"]
    ELSE [m EXCEPT !.threw = TRUE]

RECURSIVE forEachHide(_, _)
forEachHide(m, elements) ==
  IF elements = <<>> THEN m
  ELSE forEachHide(hide(m, Head(elements)), Tail(elements))

RECURSIVE forEachShow(_, _)
forEachShow(m, elements) ==
  IF elements = <<>> THEN m
  ELSE forEachShow(show(m, Head(elements)), Tail(elements))

\* hideAll with a filter that lets everything through
hideAllFilter_all(element) == TRUE

\* the filter of hideAll: everything that is not a bpmn:Process
hideAllFilter(element) == ~ is(element, "bpmn:Process")

\* hideAll hands hide the element itself, not its id; the registry's getGraphics
\* resolves an element like its id, so hide finds the graphics of every element
hideAll(m) ==
  IF m.threw THEN m
  ELSE forEachHide(m, SelectSeq(registry.order, hideAllFilter))

\* start without the test of the parent
startFilter_anyStartEvent(element) == is(element, "bpmn:StartEvent")

\* the filter of start: a StartEvent whose parent has type bpmn:Process
startFilter(element) ==
  /\ is(element, "bpmn:StartEvent")
  /\ El(element).parent # Null
  /\ El(El(element).parent).type = "bpmn:Process"

\* element.parent.type of an element without parent is a TypeError
startFilterThrows ==
  \E element \in Ids : is(element, "bpmn:StartEvent") /\ El(element).parent = Null

start(m) ==
  LET h == hideAll(m) IN
  IF h.threw THEN h
  ELSE IF startFilterThrows THEN [h EXCEPT !.threw = TRUE]
  ELSE forEachShow(h, SelectSeq(registry.order, startFilter))

\* the inner loop without the indexOf test of the source
RECURSIVE showIncoming_noSourceCheck(_, _, _)
showIncoming_noSourceCheck(m, connections, elementIds) ==
  IF connections = <<>> THEN m
  ELSE showIncoming_noSourceCheck(show(m, Head(connections)), Tail(connections), elementIds)

\* the inner loop hiding the connections whose source is not in the list
RECURSIVE showIncoming_hidesTheRest(_, _, _)
showIncoming_hidesTheRest(m, connections, elementIds) ==
  IF connections = <<>> THEN m
  ELSE LET connection == Head(connections)
           m1 == IF InList(elementIds, El(connection).source)
                   THEN show(m, connection)
                   ELSE hide(m, connection)
       IN showIncoming_hidesTheRest(m1, Tail(connections), elementIds)

\* the inner loop of showElements over element.incoming
RECURSIVE showIncoming(_, _, _)
showIncoming(m, connections, elementIds) ==
  IF connections = <<>> THEN m
  ELSE LET connection == Head(connections)
           m1 == IF InList(elementIds, El(connection).source)
                   THEN show(m, connection)
                   ELSE m
       IN showIncoming(m1, Tail(connections), elementIds)

\* one round that walks element.outgoing instead of element.incoming
showElementsStep_outgoing(m, id, elementIds) ==
  LET m1 == show(m, id)
      element == get(id)
  IN IF element = Null
       THEN [m1 EXCEPT !.console = Append(@, <<"not found", id>>)]
       ELSE showIncoming(m1, outgoing(element), elementIds)

\* one round of the outer loop of showElements
showElementsStep(m, id, elementIds) ==
  LET m1 == show(m, id)
      element == get(id)
  IN IF element = Null
       THEN [m1 EXCEPT !.console = Append(@, <<"not found", id>>)]
       ELSE showIncoming(m1, incoming(element), elementIds)

\* the outer loop ended by the first unknown id (the callback returning false)
RECURSIVE showElementsFrom_stopsAtUnknown(_, _, _)
showElementsFrom_stopsAtUnknown(m, rest, elementIds) ==
  IF rest = <<>> \/ m.threw THEN m
  ELSE LET m1 == showElementsStep(m, Head(rest), elementIds) IN
       IF get(Head(rest)) = Null THEN m1
       ELSE showElementsFrom_stopsAtUnknown(m1, Tail(rest), elementIds)

\* the outer loop testing the source against the ids walked so far, not the whole list
RECURSIVE showElementsFrom_walkedSoFar(_, _, _)
showElementsFrom_walkedSoFar(m, rest, elementIds) ==
  IF rest = <<>> \/ m.threw THEN m
  ELSE showElementsFrom_walkedSoFar(
         showElementsStep(m, Head(rest),
                          SubSeq(elementIds, 1, Len(elementIds) - Len(rest) + 1)),
         Tail(rest), elementIds)

RECURSIVE showElementsFrom(_, _, _)
showElementsFrom(m, rest, elementIds) ==
  IF rest = <<>> \/ m.threw THEN m
  ELSE showElementsFrom(showElementsStep(m, Head(rest), elementIds), Tail(rest), elementIds)

showElements(m, elementIds) == showElementsFrom(m, elementIds, elementIds)

\* showNext revealing gateways alone
showNextReveals_gatewaysOnly(target) == is(target, "bpmn:Gateway")

\* showNext revealing every flow node
showNextReveals_anyFlowNode(target) == is(target, "bpmn:FlowNode")

\* whether showNext reveals the connection to this target
showNextReveals(target) == is(target, "bpmn:Gateway") \/ is(target, "bpmn:EndEvent")

RECURSIVE showOutgoing(_, _)
showOutgoing(m, connections) ==
  IF connections = <<>> THEN m
  ELSE LET connection == Head(connections)
           target == El(connection).target
           m1 == IF showNextReveals(target)
                   THEN show(show(m, connection), target)
                   ELSE m
       IN showOutgoing(m1, Tail(connections))

\* showNext(taskId): element.outgoing of no element is a TypeError
showNext(m, taskId) ==
  LET element == get(taskId) IN
  IF element = Null THEN [m EXCEPT !.threw = TRUE]
  ELSE showOutgoing(m, outgoing(element))

\* zoomScroll.reset(): back to the baseline viewport
zoomScrollReset(m) ==
  [m EXCEPT !.camera = [x |-> 0, y |-> 0], !.zsCalls = Append(@, <<"reset", 0, 0>>)]

\* zoomScroll.scroll(delta): move the viewport by delta
zoomScrollScroll(m, dx, dy) ==
  [m EXCEPT !.camera = [x |-> @.x + dx, y |-> @.y + dy],
            !.zsCalls = Append(@, <<"scroll", dx, dy>>)]

\* scrollTo resetting the zoom before it looks the element up
scrollTo_resetsBeforeLookup(m, elementId) ==
  LET el == get(elementId)
      m0 == zoomScrollReset(m)
  IN IF el = Null THEN m0
     ELSE zoomScrollScroll([m0 EXCEPT !.console = Append(@, <<"scrollTo", elementId>>)],
                           (- El(el).x) + PADDING, (- El(el).y) + PADDING)

\* scrollTo scrolling from wherever the viewport is
scrollTo_noReset(m, elementId) ==
  LET el == get(elementId) IN
  IF el = Null THEN m
  ELSE zoomScrollScroll([m EXCEPT !.console = Append(@, <<"scrollTo", elementId>>)],
                        (- El(el).x) + PADDING, (- El(el).y) + PADDING)

\* scrollTo that also shows the element it scrolls to
scrollTo_showsElement(m, elementId) ==
  LET el == get(elementId) IN
  IF el = Null THEN m
  ELSE LET m1 == show([m EXCEPT !.console = Append(@, <<"scrollTo", elementId>>)], el)
       IN zoomScrollScroll(zoomScrollReset(m1),
                           (- El(el).x) + PADDING, (- El(el).y) + PADDING)

bla(m, x, y) == zoomScrollScroll(zoomScrollReset(m), x, y)

scrollTo(m, elementId) ==
  LET el == get(elementId) IN
  IF el = Null THEN m
  ELSE LET dx == (- El(el).x) + PADDING
           dy == (- El(el).y) + PADDING
           m1 == [m EXCEPT !.console = Append(@, <<"scrollTo", elementId>>)]
       IN zoomScrollScroll(zoomScrollReset(m1), dx, dy)

(***************************************************************************)
(* The 'shape.added' handler.  The event carries the element and its       *)
(* graphics gfx; the graphics of a shape hold at least its visual when the *)
(* event fires.  A child of gfx is a record [tag, n, uri, x, y, width,     *)
(* height]: tag "g" and its number n for a child that was there, tag       *)
(* "image" for an image of the handler.                                    *)
(***************************************************************************)
\* is(element, type) on the element the event carries
isShape(element, type) == element.bo = type \/ type \in SuperTypes(element.bo)

ExistingChildren(n) ==
  [i \in 1..n |-> [tag |-> "g", n |-> i, uri |-> "", x |-> 0, y |-> 0,
                   width |-> 0, height |-> 0]]

\* gfx.image(uri, x, y, width, height): a new image, appended to gfx
gfxImage(children, uri, x, y, width, height) ==
  Append(children, [tag |-> "image", n |-> 0, uri |-> uri, x |-> x, y |-> y,
                    width |-> width, height |-> height])

\* insertBefore leaving the image where gfx.image put it
insertBeforeFirstChild_stays(children) == children

\* image.insertBefore(gfx.children()[0]), the image being the last child of gfx
insertBeforeFirstChild(children) ==
  IF Len(children) = 1 THEN children
  ELSE <<children[Len(children)]>> \o SubSeq(children, 1, Len(children) - 1)

\* the handler: the children of gfx when it returns
shapeAdded(element, children) ==
  IF element.type = "label" THEN children
  ELSE
    LET c1 == IF isShape(element, "bpmn:Task") \/ isShape(element, "bpmn:CallActivity")
                THEN insertBeforeFirstChild(
                       gfxImage(children, "resources/scroll.png", -20, -20,
                                element.width + 40, element.height + 40))
                ELSE children
        c2 == IF isShape(element, "bpmn:StartEvent") /\ element.type # "label"
                THEN gfxImage(c1, "resources/green-diamond.png", 0, 0,
                              element.width, element.height)
                ELSE c1
        c3 == IF isShape(element, "bpmn:EndEvent") /\ element.type # "label"
                THEN gfxImage(c2, "resources/red-diamond.png", 0, 0,
                              element.width, element.height)
                ELSE c2
        c4 == IF isShape(element, "bpmn:Gateway")
                THEN gfxImage(c3, "resources/swords.png", 0, 0,
                              element.width + 2, element.height + 2)
                ELSE c3
    IN IF isShape(element, "bpmn:SubProcess")
         THEN insertBeforeFirstChild(
                gfxImage(c4, "resources/hell.png", 0, 0, element.width, element.height))
         ELSE c4

\* no 'shape.added' event yet
NoShape == [type |-> Null, bo |-> Null, width |-> 0, height |-> 0]

InitCanvas ==
  /\ addedShape = NoShape
  /\ addedGfx = <<>>

\* the business object types of the shapes a diagram brings
ShapeTypes ==
  {"bpmn:Task", "bpmn:UserTask", "bpmn:CallActivity", "bpmn:StartEvent", "bpmn:EndEvent",
   "bpmn:ExclusiveGateway", "bpmn:ParallelGateway", "bpmn:SubProcess", "bpmn:Transaction",
   "bpmn:IntermediateThrowEvent", "bpmn:Participant", "bpmn:DataObjectReference"}

\* the widths and heights of shapes
Sizes == {36, 100}

\* the canvas adds a shape (the element itself or its label) and fires 'shape.added'
ShapeAdded ==
  \E bo \in ShapeTypes, label \in BOOLEAN, width \in Sizes, height \in Sizes,
     n \in 1..MaxChildren :
    LET element == [type |-> IF label THEN "label" ELSE bo, bo |-> bo,
                    width |-> width, height |-> height]
    IN /\ addedShape' = element
       /\ addedGfx' = shapeAdded(element, ExistingChildren(n))
       /\ UNCHANGED <<dungeonVars, viewerVars, paletteVars>>

NextCanvas == ShapeAdded

(***************************************************************************)
(* The palette provider.  getPaletteEntries builds the entries; an entry   *)
(* made by createAction keeps the type, options and label it was made with *)
(* (the closure of createListener).  The palette calls the listener an     *)
(* entry has for an event.  elementFactory, setLabel, create, lassoTool    *)
(* and spaceTool are collaborators: a call on one of them is logged as     *)
(* [fn, shape, arg], shape being the number of the shape it is given (0    *)
(* for none); they return normally.  A palette record                      *)
(*   w = [createdShapes, paletteCalls]                                     *)
(* is threaded through a listener.                                         *)
(***************************************************************************)
\* type.replace(/^bpmn\:/, '')
shortType(type) ==
  CASE type = "bpmn:StartEvent" -> "StartEvent"
    [] type = "bpmn:EndEvent" -> "EndEvent"
    [] type = "bpmn:ExclusiveGateway" -> "ExclusiveGateway"
    [] type = "bpmn:CallActivity" -> "CallActivity"
    [] OTHER -> type

\* the empty object {} handed as options
EmptyOptions == "{}"

\* createAction(type, group, className, title, options, label); Null for an argument
\* that is not given
createAction(type, group, className, title, options, label) ==
  [group |-> group, className |-> className,
   title |-> IF title # Null THEN title ELSE "Create " \o shortType(type),
   separator |-> FALSE,
   action |-> {"dragstart", "click"}, listener |-> "createListener",
   type |-> type, options |-> options, label |-> label]

\* an entry of the tools group
toolEntry(className, title, listener) ==
  [group |-> "tools", className |-> className, title |-> title, separator |-> FALSE,
   action |-> {"click"}, listener |-> listener,
   type |-> Null, options |-> Null, label |-> Null]

getPaletteEntries ==
  ( "lasso-tool" :> toolEntry("icon-lasso-tool", "Activate the lasso tool", "lassoTool")
 @@ "space-tool" :> toolEntry("icon-space-tool", "Activate the create/remove space tool",
                              "spaceTool")
 @@ "tool-separator" :> [group |-> "tools", className |-> Null, title |-> Null,
                         separator |-> TRUE, action |-> {}, listener |-> Null,
                         type |-> Null, options |-> Null, label |-> Null]
 @@ "create.start-event" :>
      createAction("bpmn:StartEvent", "event", "icon-green-diamond", Null, Null, Null)
 @@ "create.end-event" :>
      createAction("bpmn:EndEvent", "event", "icon-red-diamond", Null, Null, Null)
 @@ "create.sword" :>
      createAction("bpmn:ExclusiveGateway", "activity", "icon-swords",
                   "Create Exclusive Gateway", Null, Null)
 @@ "create.story" :>
      createAction("bpmn:CallActivity", "activity", "icon-monster", "Create Monster",
                   EmptyOptions, "Monster")
 @@ "create.riddle" :>
      createAction("bpmn:CallActivity", "activity", "icon-riddle", "Create Riddle",
                   EmptyOptions, "Riddle")
 @@ "create.monster" :>
      createAction("bpmn:CallActivity", "activity", "icon-story", "Create Story Item",
                   EmptyOptions, "Story Item") )

logCall(w, fn, shape, arg) ==
  [w EXCEPT !.paletteCalls = Append(@, [fn |-> fn, shape |-> shape, arg |-> arg])]

\* elementFactory.createShape(assign({ type: type }, options)): the new shape is the last
createShape(w, type) ==
  logCall([w EXCEPT !.createdShapes =
                      Append(@, [type |-> type, label |-> Null, isExpanded |-> "unset"])],
          "elementFactory.createShape", Len(w.createdShapes) + 1, type)

setLabel(w, shape, label) ==
  logCall([w EXCEPT !.createdShapes[shape].label = label], "setLabel", shape, label)

\* create.start(event, shape)
createStart(w, event, shape) == logCall(w, "create.start", shape, event)

\* createListener starting the gesture before it sets the label
createListener_startsBeforeLabel(w, entry, event) ==
  LET w1 == createShape(w, entry.type)
      shape == Len(w1.createdShapes)
      w2 == createStart(w1, event, shape)
  IN IF entry.label # Null THEN setLabel(w2, shape, entry.label) ELSE w2

\* createListener(event) of the entry; options {} has no isExpanded, so the assignment
\* stores undefined
createListener(w, entry, event) ==
  LET w1 == createShape(w, entry.type)
      shape == Len(w1.createdShapes)
      w2 == IF entry.label # Null THEN setLabel(w1, shape, entry.label) ELSE w1
      w3 == IF entry.options # Null
              THEN [w2 EXCEPT !.createdShapes[shape].isExpanded = "undefined"]
              ELSE w2
  IN createStart(w3, event, shape)

\* the click listeners of the two tools
toolListener(w, entry, event) ==
  logCall(w, entry.listener \o ".activateSelection", 0, event)

InitPalette ==
  /\ paletteEntries = <<>>
  /\ createdShapes = <<>>
  /\ paletteCalls = <<>>
  /\ paletteLast = [op |-> "none", entry |-> Null, event |-> Null, before |-> 0]

\* the palette asks the provider for its entries
GetPaletteEntries ==
  /\ paletteEntries' = getPaletteEntries
  /\ paletteCalls' = <<>>
  /\ paletteLast' = [op |-> "getPaletteEntries", entry |-> Null, event |-> Null,
                     before |-> Len(createdShapes)]
  /\ UNCHANGED <<createdShapes, dungeonVars, viewerVars, canvasVars>>

\* the events a palette entry is triggered with
PaletteEvents == {"click", "dragstart"}

\* the palette calls the listener that the entry has for the event
Trigger ==
  /\ DOMAIN paletteEntries # {}
  /\ \E name \in DOMAIN paletteEntries, event \in PaletteEvents :
       LET entry == paletteEntries[name]
           w == [createdShapes |-> createdShapes, paletteCalls |-> <<>>]
           w1 == IF entry.listener = "createListener"
                   THEN createListener(w, entry, event)
                   ELSE toolListener(w, entry, event)
       IN /\ event \in entry.action
          /\ entry.listener = "createListener" => Len(createdShapes) < MaxShapes
          /\ createdShapes' = w1.createdShapes
          /\ paletteCalls' = w1.paletteCalls
          /\ paletteLast' = [op |-> "trigger", entry |-> name, event |-> event,
                             before |-> Len(createdShapes)]
  /\ UNCHANGED <<paletteEntries, dungeonVars, viewerVars, canvasVars>>

NextPalette ==
  \/ GetPaletteEntries
  \/ Trigger

(***************************************************************************)
(* Actions                                                                 *)
(***************************************************************************)
Machine ==
  [display |-> display, camera |-> camera, zsCalls |-> <<>>, console |-> <<>>,
   threw |-> FALSE]

NoCall == [op |-> "none", arg |-> <<>>]

Init ==
  /\ loaded \in Diagrams
  /\ display = [id \in Ids |-> ""]
  /\ camera = [x |-> 0, y |-> 0]
  /\ zsCalls = <<>>
  /\ console = <<>>
  /\ threw = FALSE
  /\ pc = "idle"
  /\ call = NoCall
  /\ pre = [display |-> display, camera |-> camera]
  /\ vDiagram = 0
  /\ vDefinitions = 0
  /\ vListeners = <<>>
  /\ vContainer = "attached"
  /\ diagrams = <<>>
  /\ calls = <<>>
  /\ InitCanvas
  /\ InitPalette

\* the host calls op(arg) and the function runs to its end, leaving m
Returns(op, arg, m) ==
  /\ pc' = "returned"
  /\ call' = [op |-> op, arg |-> arg]
  /\ pre' = [display |-> display, camera |-> camera]
  /\ display' = m.display
  /\ camera' = m.camera
  /\ zsCalls' = m.zsCalls
  /\ console' = m.console
  /\ threw' = m.threw
  /\ UNCHANGED <<loaded, viewerVars, canvasVars, paletteVars>>

\* the ids a host may pass: every registered id and an unknown one
ArgIds == Ids \cup {UnknownId}

\* the registered ids that have a position
BoundsIds == {id \in Ids : El(id).bounds}

ListsUpTo(S, n) == UNION {[1..k -> S] : k \in 0..n}

HideAll == pc = "idle" /\ Returns("hideAll", <<>>, hideAll(Machine))

Start == pc = "idle" /\ Returns("start", <<>>, start(Machine))

ShowElement == pc = "idle" /\ \E id \in ArgIds : Returns("showElement", <<id>>, show(Machine, id))

ShowElements ==
  pc = "idle" /\ \E ids \in ListsUpTo(ArgIds, MaxLen) : Returns("showElements", ids, showElements(Machine, ids))

ShowNext == pc = "idle" /\ \E id \in ArgIds : Returns("showNext", <<id>>, showNext(Machine, id))

ScrollTo ==
  pc = "idle" /\ \E id \in BoundsIds \cup {UnknownId} : Returns("scrollTo", <<id>>, scrollTo(Machine, id))

\* the offsets a host passes to bla
BlaOffsets == {0, 10}

Bla ==
  pc = "idle" /\ \E x \in BlaOffsets, y \in BlaOffsets : Returns("bla", <<x, y>>, bla(Machine, x, y))

\* control is back with the host
Return ==
  /\ pc = "returned"
  /\ pc' = "idle"
  /\ call' = NoCall
  /\ pre' = [display |-> display, camera |-> camera]
  /\ zsCalls' = <<>>
  /\ console' = <<>>
  /\ threw' = FALSE
  /\ UNCHANGED <<loaded, display, camera, viewerVars, canvasVars, paletteVars>>

(***************************************************************************)
(* The Viewer: importXML, importDefinitions, clear, destroy, on.           *)
(* JavaScript runs each synchronous stretch to its end, so an action is    *)
(* one such stretch: the call itself, or a callback that the parser or the *)
(* importer invokes later.  The parser (moddle.fromXML), the Diagram       *)
(* constructor, the importer (Importer.importBpmnDiagram) and the host's   *)
(* done callback are outside the viewer; what they do is an input of the   *)
(* action.  A viewer record w = [vDiagram, vDefinitions, vListeners,       *)
(* diagrams, c] is threaded through the function bodies, c being the       *)
(* record of the import call that is running.  The definitions object of   *)
(* call number i is named i, the k-th handler given to on() is named k.    *)
(* An exception that leaves a stretch (done throwing outside every try, or *)
(* inside the catch block) reaches the host and changes nothing here.      *)
(***************************************************************************)
\* moddle.fromXML: throws, calls back at once (error / success), or calls back later
ParserBehaviours == {"throw", "sync_err", "sync_ok", "later"}

\* Importer.importBpmnDiagram: throws, calls done at once (error / success), or later
ImporterBehaviours == {"throw", "sync_err", "sync_ok", "later"}

\* a call that begins: no done yet, its local variable diagram unset; cleared records
\* whether the diagram the viewer holds had been destroyed when the call began
NewCall ==
  [stage |-> "running", doneCalls |-> <<>>, diagram |-> 0,
   cleared |-> vDiagram # 0 /\ diagrams[vDiagram].destroyed]

\* done(...) is invoked with an error ("err") or with (null, warnings) ("ok")
invokeDone(w, kind) == [w EXCEPT !.c.doneCalls = Append(@, kind)]

\* the call is over
finish(w) == [w EXCEPT !.c.stage = "finished"]

\* clear() that destroys nothing
clear_destroysNothing(w) == w

\* clear(): diagram.destroy() on the diagram the viewer holds, which stays in this.diagram
clear(w) ==
  IF w.vDiagram # 0
    THEN [w EXCEPT !.diagrams[w.vDiagram].destroyed = TRUE]
    ELSE w

\* initListeners that puts no listener on the new event bus
initListeners_none(listeners) == <<>>

\* initListeners(diagram, listeners): events.on for every listener, in order
initListeners(listeners) == listeners

\* the new diagram left out of this.diagram when the viewer holds one already
createDiagram_keepsHeld(w) ==
  [w EXCEPT !.diagrams = Append(@, [destroyed |-> FALSE,
                                     bus |-> initListeners(w.vListeners),
                                     since |-> Len(w.vListeners)]),
            !.vDiagram = IF @ = 0 THEN Len(w.diagrams) + 1 ELSE @,
            !.c.diagram = Len(w.diagrams) + 1]

\* diagram = this.diagram = this._createDiagram(this.options); this._init(diagram).
\* since: how many listeners the viewer had when the diagram was created
createDiagram(w) ==
  [w EXCEPT !.diagrams = Append(@, [destroyed |-> FALSE,
                                     bus |-> initListeners(w.vListeners),
                                     since |-> Len(w.vListeners)]),
            !.vDiagram = Len(w.diagrams) + 1,
            !.c.diagram = Len(w.diagrams) + 1]

\* Viewer.prototype.get(name): throws without a diagram, else the service of this.diagram
viewerGet(w) ==
  IF w.vDiagram = 0 THEN [threw |-> TRUE, diagram |-> 0]
  ELSE [threw |-> FALSE, diagram |-> w.vDiagram]

\* catch (e) { done(e); }
importDefinitionsCatch(w) == finish(invokeDone(w, "err"))

\* the body of importDefinitions(definitions, done).  createThrows: the Diagram
\* constructor throws; importer: what importBpmnDiagram does; doneThrows: done throws
\* when the importer invokes it inside the try block
importDefinitions(w, definitions, createThrows, importer, doneThrows) ==
  LET w1 == [clear(w) EXCEPT !.vDefinitions = definitions] IN
  IF createThrows THEN importDefinitionsCatch(w1)
  ELSE
    LET w2 == createDiagram(w1) IN
    CASE importer = "throw" -> importDefinitionsCatch(w2)
      [] importer = "sync_ok" ->
           IF doneThrows THEN importDefinitionsCatch(invokeDone(w2, "ok"))
           ELSE finish(invokeDone(w2, "ok"))
      [] importer = "sync_err" ->
           IF doneThrows THEN importDefinitionsCatch(invokeDone(w2, "err"))
           ELSE finish(invokeDone(w2, "err"))
      [] importer = "later" -> [w2 EXCEPT !.c.stage = "importing"]

\* the callback importXML hands to moddle.fromXML
fromXMLCallback(w, err, definitions, createThrows, importer, doneThrows) ==
  IF err THEN finish(invokeDone(w, "err"))
  ELSE importDefinitions(w, definitions, createThrows, importer, doneThrows)

\* the body of importXML(xml, done)
importXML(w, parser, definitions, createThrows, importer, doneThrows) ==
  CASE parser = "throw" -> finish(w)
    [] parser = "sync_err" ->
         fromXMLCallback(w, TRUE, definitions, createThrows, importer, doneThrows)
    [] parser = "sync_ok" ->
         fromXMLCallback(w, FALSE, definitions, createThrows, importer, doneThrows)
    [] parser = "later" -> [w EXCEPT !.c.stage = "parsing"]

\* the viewer as a record, running call record c
World(c) ==
  [vDiagram |-> vDiagram, vDefinitions |-> vDefinitions, vListeners |-> vListeners,
   diagrams |-> diagrams, c |-> c]

\* another Diagram is within the bound
CanCreate == Len(diagrams) < MaxDiagrams

\* the viewer after a stretch that ran call number i and left w
Stores(w, i) ==
  /\ vDiagram' = w.vDiagram
  /\ vDefinitions' = w.vDefinitions
  /\ diagrams' = w.diagrams
  /\ calls' = IF i > Len(calls) THEN Append(calls, w.c) ELSE [calls EXCEPT ![i] = w.c]
  /\ UNCHANGED <<vListeners, vContainer, dungeonVars, canvasVars, paletteVars>>

ImportDefinitions ==
  /\ Len(calls) < MaxCalls
  /\ CanCreate
  /\ \E createThrows \in BOOLEAN, importer \in ImporterBehaviours, doneThrows \in BOOLEAN :
       Stores(importDefinitions(World(NewCall), Len(calls) + 1,
                                createThrows, importer, doneThrows),
              Len(calls) + 1)

ImportXML ==
  /\ Len(calls) < MaxCalls
  /\ CanCreate
  /\ \E parser \in ParserBehaviours, createThrows \in BOOLEAN,
        importer \in ImporterBehaviours, doneThrows \in BOOLEAN :
       Stores(importXML(World(NewCall), parser, Len(calls) + 1,
                        createThrows, importer, doneThrows),
              Len(calls) + 1)

\* the parser calls back later
ParserCallback ==
  \E i \in 1..Len(calls) :
    /\ calls[i].stage = "parsing"
    /\ \E err \in BOOLEAN, createThrows \in BOOLEAN,
          importer \in ImporterBehaviours, doneThrows \in BOOLEAN :
         /\ err \/ CanCreate
         /\ Stores(fromXMLCallback(World(calls[i]), err, i, createThrows,
                                   importer, doneThrows), i)

\* the importer calls done later, outside the try block of importDefinitions
ImporterCallback ==
  \E i \in 1..Len(calls) :
    /\ calls[i].stage = "importing"
    /\ \E kind \in {"err", "ok"} :
         Stores(finish(invokeDone(World(calls[i]), kind)), i)

Clear ==
  /\ diagrams' = clear(World(NewCall)).diagrams
  /\ UNCHANGED <<vDiagram, vDefinitions, vListeners, vContainer, calls, dungeonVars,
                 canvasVars, paletteVars>>

\* destroy(): clear() and domRemove(this.container)
Destroy ==
  /\ diagrams' = clear(World(NewCall)).diagrams
  /\ vContainer' = "removed"
  /\ UNCHANGED <<vDiagram, vDefinitions, vListeners, calls, dungeonVars,
                 canvasVars, paletteVars>>

\* on(event, handler): remember the listener and put it on the current event bus
On ==
  /\ Len(vListeners) < MaxListeners
  /\ LET handler == Len(vListeners) + 1 IN
       /\ vListeners' = Append(vListeners, handler)
       /\ diagrams' = IF vDiagram # 0
                        THEN [diagrams EXCEPT ![vDiagram].bus = Append(@, handler)]
                        ELSE diagrams
  /\ UNCHANGED <<vDiagram, vDefinitions, vContainer, calls, dungeonVars,
                 canvasVars, paletteVars>>

NextViewer ==
  \/ ImportDefinitions
  \/ ImportXML
  \/ ParserCallback
  \/ ImporterCallback
  \/ Clear
  \/ Destroy
  \/ On

InitViewer == Init /\ loaded = "linear"

SpecViewer == InitViewer /\ [][NextViewer]_vars

Next ==
  \/ HideAll
  \/ Start
  \/ ShowElement
  \/ ShowElements
  \/ ShowNext
  \/ Return

Spec == Init /\ [][Next]_vars

NextCamera ==
  \/ ScrollTo
  \/ Bla
  \/ HideAll
  \/ Start
  \/ ShowElement
  \/ ShowNext
  \/ Return

SpecCamera == Init /\ [][NextCamera]_vars

\* the canvas and the palette of the one viewer
SpecCanvas == InitViewer /\ [][NextCanvas]_vars

SpecPalette == InitViewer /\ [][NextPalette]_vars

(***************************************************************************)
(* One call from any display.  The displays the feature can be in: a       *)
(* Process is never hidden (hideAll spares it); before the first hideAll   *)
(* every other element is untouched ("") or shown, after it hidden or      *)
(* shown (showElement shows any one id, so every such mix is reached).     *)
(***************************************************************************)
StartingDisplays ==
  {d \in [Ids -> {"", "inline", "none"}] :
     /\ \A id \in Ids : is(id, "bpmn:Process") => d[id] # "none"
     /\ \/ \A id \in Ids : ~ is(id, "bpmn:Process") => d[id] # "none"
        \/ \A id \in Ids : ~ is(id, "bpmn:Process") => d[id] # ""}

InitAnyDisplay ==
  /\ loaded \in Diagrams
  /\ display \in StartingDisplays
  /\ camera = [x |-> 0, y |-> 0]
  /\ zsCalls = <<>>
  /\ console = <<>>
  /\ threw = FALSE
  /\ pc = "idle"
  /\ call = NoCall
  /\ pre = [display |-> display, camera |-> camera]
  /\ vDiagram = 0
  /\ vDefinitions = 0
  /\ vListeners = <<>>
  /\ vContainer = "attached"
  /\ diagrams = <<>>
  /\ calls = <<>>
  /\ InitCanvas
  /\ InitPalette

NextAnyDisplay ==
  \/ ShowElement
  \/ ShowElements
  \/ ShowNext
  \/ ScrollTo
  \/ Bla
  \/ HideAll
  \/ Start

SpecAnyDisplay == InitAnyDisplay /\ [][NextAnyDisplay]_vars

\* showElements alone, as a function of the display and of the list
NextShowElements == ShowElements

SpecShowElements == InitAnyDisplay /\ [][NextShowElements]_vars

(***************************************************************************)
(* The two toggles as functions of an id.  show is exposed as showElement; *)
(* hide is a function of the feature that hideAll calls, applied here to   *)
(* any id the way show is.                                                 *)
(***************************************************************************)
Hide == pc = "idle" /\ \E id \in ArgIds : Returns("hide", <<id>>, hide(Machine, id))

NextToggle ==
  \/ ShowElement
  \/ Hide

SpecToggle == InitAnyDisplay /\ [][NextToggle]_vars

(***************************************************************************)
(* Properties                                                              *)
(***************************************************************************)
Returned(op) == pc = "returned" /\ call.op = op

Visible(d, id) == d[id] # "none"

\* no visible connection hangs off a hidden source
NoDangling(d) ==
  \A c \in Ids : (IsConnection(c) /\ Visible(d, c)) => Visible(d, El(c).source)

\* the machine a call started from
PreMachine ==
  [display |-> pre.display, camera |-> pre.camera, zsCalls |-> <<>>, console |-> <<>>,
   threw |-> FALSE]

\* C1: after start(), whatever was shown before, a non-Process element or connection
\* is displayed if it is a StartEvent whose direct parent has type bpmn:Process, and
\* is hidden otherwise.
C1_StartShowsRootStartEvents ==
  Returned("start") =>
    /\ ~ threw
    /\ \A id \in Ids :
         ~ is(id, "bpmn:Process") =>
           display[id] = IF /\ is(id, "bpmn:StartEvent")
                            /\ El(id).parent \in Ids
                            /\ El(El(id).parent).type = "bpmn:Process"
                           THEN "inline" ELSE "none"

C1_Witness ==
  /\ Returned("start")
  /\ loaded = "nested"
  /\ pre.display["A"] = "none" /\ pre.display["A2"] = "inline" /\ pre.display["S"] = "inline"
  /\ display["A"] = "inline" /\ display["A2"] = "none" /\ display["S"] = "none"

\* C2 as stated: in every reachable state every visible connection has a visible source.
C2_NoDanglingConnectionEver == NoDangling(display)

\* the calls that keep to the walk: showElement and showElements are given no id of a
\* connection, showNext is given an element that is visible (or an unknown id)
C2_CallKeepsToWalk ==
  CASE call.op \in {"showElement", "showElements"} ->
         \A i \in 1..Len(call.arg) : ~ IsConnection(call.arg[i])
    [] call.op = "showNext" ->
         call.arg[1] \notin Ids \/ Visible(pre.display, call.arg[1])
    [] OTHER -> TRUE

\* C2 amended: a call of hideAll, start, showElement, showElements or showNext that
\* keeps to the walk, made where every visible connection has a visible source,
\* leaves every visible connection with a visible source.
C2_WalkKeepsNoDangling ==
  (pc = "returned" /\ NoDangling(pre.display) /\ C2_CallKeepsToWalk) => NoDangling(display)

C2_Witness ==
  /\ Returned("showNext")
  /\ loaded = "linear"
  /\ call.arg = <<"B">>
  /\ NoDangling(pre.display)
  /\ pre.display["B"] = "inline" /\ pre.display["f2"] = "none" /\ pre.display["A"] = "none"
  /\ display["f2"] = "inline" /\ display["C"] = "inline"

\* C3: showElements(S), for S a list of registered elements (no connection among them),
\* called where all connections are hidden: every element of S is displayed, a
\* connection is visible iff its source and its target are both in S, and every other
\* element and connection keeps the display it had.
C3_ShowElementsConnections ==
  ( /\ Returned("showElements")
    /\ \A i \in 1..Len(call.arg) : call.arg[i] \in Ids /\ ~ IsConnection(call.arg[i])
    /\ \A c \in Ids : IsConnection(c) => pre.display[c] = "none" ) =>
    /\ ~ threw
    /\ \A id \in Ids :
         IF InList(call.arg, id) THEN display[id] = "inline"
         ELSE IF IsConnection(id)
           THEN /\ Visible(display, id) <=>
                     (InList(call.arg, El(id).source) /\ InList(call.arg, El(id).target))
                /\ ~ (InList(call.arg, El(id).source) /\ InList(call.arg, El(id).target))
                     => display[id] = pre.display[id]
           ELSE display[id] = pre.display[id]

C3_Witness ==
  /\ Returned("showElements")
  /\ loaded = "fork"
  /\ call.arg = <<"A", "T">>
  /\ pre.display["g1"] = "none" /\ pre.display["g2"] = "none"
  /\ pre.display["T"] = "none" /\ pre.display["G"] = "none"
  /\ display["g2"] = "inline" /\ display["g1"] = "none"
  /\ display["T"] = "inline" /\ display["G"] = "none"

\* C4: showNext(t) for a registered t displays exactly the outgoing connections of t
\* whose target is a Gateway or an EndEvent, and those targets; everything else,
\* the connections to other targets and those targets included, keeps its display.
C4_ShowNextRevealsGatewaysAndEnds ==
  (Returned("showNext") /\ call.arg[1] \in Ids) =>
    LET t == call.arg[1]
        revealedConnections ==
          {c \in Ids : /\ El(c).source = t
                       /\ (is(El(c).target, "bpmn:Gateway") \/ is(El(c).target, "bpmn:EndEvent"))}
        revealed == revealedConnections \cup {El(c).target : c \in revealedConnections}
    IN /\ ~ threw
       /\ \A id \in Ids :
            display[id] = IF id \in revealed THEN "inline" ELSE pre.display[id]

C4_Witness ==
  /\ Returned("showNext")
  /\ loaded = "fork"
  /\ call.arg = <<"A">>
  /\ pre.display["g1"] = "none" /\ pre.display["G"] = "none"
  /\ pre.display["g2"] = "none" /\ pre.display["T"] = "none"
  /\ display["g1"] = "inline" /\ display["G"] = "inline"
  /\ display["g2"] = "none" /\ display["T"] = "none"

\* C5 as stated: showNext(id) for an id that is not registered returns normally and
\* changes no display.
C5_ShowNextUnknownReturns ==
  (Returned("showNext") /\ call.arg[1] \notin Ids) =>
    (~ threw /\ display = pre.display)

\* C6: showElements(ids) with an unknown id somewhere in ids does not throw, logs each
\* unknown id in order, displays every registered id of the list and each of its
\* incoming connections whose source is in ids, and ends with the display that
\* showElements gives for the list without the unknown ids.
C6_ShowElementsSkipsUnknown ==
  (Returned("showElements") /\ \E i \in 1..Len(call.arg) : call.arg[i] \notin Ids) =>
    LET unknown == SelectSeq(call.arg, LAMBDA id : id \notin Ids)
        known == SelectSeq(call.arg, LAMBDA id : id \in Ids)
    IN /\ ~ threw
       /\ console = [i \in 1..Len(unknown) |-> <<"not found", unknown[i]>>]
       /\ \A i \in 1..Len(call.arg) :
            call.arg[i] \in Ids =>
              /\ display[call.arg[i]] = "inline"
              /\ \A c \in Ids :
                   (El(c).target = call.arg[i] /\ InList(call.arg, El(c).source))
                     => display[c] = "inline"
       /\ display = showElements(PreMachine, known).display

C6_Witness ==
  /\ Returned("showElements")
  /\ loaded = "linear"
  /\ call.arg = <<"A", UnknownId, "B">>
  /\ pre.display["A"] = "none" /\ pre.display["B"] = "none" /\ pre.display["f1"] = "none"
  /\ display["A"] = "inline" /\ display["B"] = "inline" /\ display["f1"] = "inline"
  /\ console = << <<"not found", UnknownId>> >>

\* C7: scrollTo(id) for an id that is not registered does not throw and calls neither
\* zoomScroll.reset nor zoomScroll.scroll: the viewport is where it was.
C7_ScrollToUnknownIsNoOp ==
  (Returned("scrollTo") /\ call.arg[1] \notin Ids) =>
    /\ ~ threw
    /\ zsCalls = <<>>
    /\ camera = pre.camera
    /\ display = pre.display

C7_Witness ==
  /\ Returned("scrollTo")
  /\ call.arg = <<UnknownId>>
  /\ pre.camera = [x |-> PADDING - 100, y |-> PADDING - 20]
  /\ camera = pre.camera

\* C8: scrollTo(id) for a registered element at (x, y) calls zoomScroll.reset once and
\* then zoomScroll.scroll once with (75 - x, 75 - y); the viewport ends at the baseline
\* moved by that delta, wherever it was before.
C8_ScrollToResetsThenScrolls ==
  (Returned("scrollTo") /\ call.arg[1] \in Ids) =>
    LET dx == 75 - El(call.arg[1]).x
        dy == 75 - El(call.arg[1]).y
    IN /\ ~ threw
       /\ zsCalls = << <<"reset", 0, 0>>, <<"scroll", dx, dy>> >>
       /\ camera = [x |-> dx, y |-> dy]

C8_Witness ==
  /\ Returned("scrollTo")
  /\ loaded = "linear"
  /\ call.arg = <<"C">>
  /\ pre.camera = [x |-> -25, y |-> 55]
  /\ camera = [x |-> -125, y |-> -15]

\* C9 as stated: for every import call the completion callback is invoked at most
\* once, never with a success result and with an error for the same call.
C9_DoneInvokedAtMostOnce ==
  \A i \in 1..Len(calls) : Len(calls[i].doneCalls) <= 1

\* C10: hideAll() hides every registered element and connection that is not a Process
\* and leaves the display of every Process as it was; and no Process is ever hidden.
C10_HideAllSparesProcess ==
  /\ Returned("hideAll") =>
       /\ ~ threw
       /\ \A id \in Ids :
            display[id] = IF is(id, "bpmn:Process") THEN pre.display[id] ELSE "none"
  /\ \A id \in Ids : is(id, "bpmn:Process") => display[id] # "none"

C10_Witness ==
  /\ Returned("hideAll")
  /\ loaded = "nested"
  /\ pre.display["P"] = "inline" /\ pre.display["A_label"] = "inline"
  /\ pre.display["A2"] = "inline"
  /\ display["P"] = "inline" /\ display["A_label"] = "none" /\ display["A2"] = "none"

\* the elements and connections a display shows
VisibleSet(d) == {id \in Ids : Visible(d, id)}

\* the call that has just returned, made once more where it returned
Again ==
  CASE call.op = "showElement" -> show(Machine, call.arg[1])
    [] call.op = "showElements" -> showElements(Machine, call.arg)
    [] call.op = "showNext" -> showNext(Machine, call.arg[1])

\* C11: from every display, showElement(id), showElements(S) and showNext(t) made a
\* second time with the same argument leave the visible set the first call left, and
\* showElement of an element that is visible leaves the visible set as it was.
C11_ShowIsIdempotent ==
  (pc = "returned" /\ call.op \in {"showElement", "showElements", "showNext"}) =>
    /\ \A again \in {Again} : VisibleSet(again.display) = VisibleSet(display)
    /\ (call.op = "showElement" /\ call.arg[1] \in VisibleSet(pre.display)) =>
         VisibleSet(display) = VisibleSet(pre.display)

C11_Witness ==
  /\ Returned("showElements")
  /\ loaded = "linear"
  /\ call.arg = <<"A", "B">>
  /\ VisibleSet(pre.display) = {"P"}
  /\ VisibleSet(display) = {"P", "A", "B", "f1"}
  /\ VisibleSet(Again.display) = {"P", "A", "B", "f1"}

\* where the registry holds an id; 0 for an id it does not hold
Rank(id) ==
  IF id \in Ids THEN CHOOSE i \in 1..Len(registry.order) : registry.order[i] = id ELSE 0

\* the one arrangement of a list that stands for all its rearrangements
Sorted(list) == \A i \in 1..(Len(list) - 1) : Rank(list[i]) <= Rank(list[i + 1])

\* every list that holds the same ids as often, in any order
Rearrangements(list) ==
  {[i \in 1..Len(list) |-> list[p[i]]] : p \in Permutations(1..Len(list))}

\* C12: from every display and for every list of ids (unknown ids and repeated ids
\* included), showElements leaves the same visible set for every rearrangement of the
\* list: each rearrangement of a sorted list gives the visible set the sorted list gave.
C12_ShowElementsOrderIndependent ==
  (Returned("showElements") /\ Sorted(call.arg)) =>
    \A list \in Rearrangements(call.arg) :
      \A m \in {showElements(PreMachine, list)} :
        ~ m.threw /\ VisibleSet(m.display) = VisibleSet(display)

C12_Witness ==
  /\ Returned("showElements")
  /\ loaded = "linear"
  /\ call.arg = <<UnknownId, "A", "B">>
  /\ VisibleSet(pre.display) = {"P", "C"}
  /\ VisibleSet(display) = {"P", "A", "B", "C", "f1"}
  /\ <<"B", UnknownId, "A">> \in Rearrangements(call.arg)
  /\ VisibleSet(showElements(PreMachine, <<"B", UnknownId, "A">>).display) = VisibleSet(display)

\* C13 as stated: show(id) and hide(id) for an id that has no graphics in the registry
\* return normally and leave every display as it was.
C13_TogglesTolerateUnknownId ==
  (pc = "returned" /\ call.op \in {"showElement", "hide"} /\ call.arg[1] \notin Ids) =>
    (~ threw /\ display = pre.display)

\* what a display shows, the Process aside
VisibleNonProcess(d) == {id \in Ids : ~ is(id, "bpmn:Process") /\ Visible(d, id)}

\* C14: on Process -> StartEvent A -> Task B -> EndEvent C, with f2 the connection
\* B -> C: start() leaves exactly {A} visible beside the Process; showElements(['B'])
\* called where exactly {A} is visible leaves exactly {A, B}; showNext('B') called
\* where exactly {A, B} is visible shows f2 and C and changes nothing else.
C14_ScenarioLinearWalk ==
  loaded = "linear" =>
    /\ Returned("start") =>
         (~ threw /\ VisibleNonProcess(display) = {"A"})
    /\ ( /\ Returned("showElements")
         /\ call.arg = <<"B">>
         /\ VisibleNonProcess(pre.display) = {"A"} ) =>
         (~ threw /\ VisibleNonProcess(display) = {"A", "B"})
    /\ ( /\ Returned("showNext")
         /\ call.arg = <<"B">>
         /\ VisibleNonProcess(pre.display) = {"A", "B"} ) =>
         /\ ~ threw
         /\ VisibleNonProcess(display) = {"A", "B", "f2", "C"}
         /\ \A id \in Ids \ {"f2", "C"} : display[id] = pre.display[id]

C14_Witness ==
  /\ Returned("showNext")
  /\ loaded = "linear"
  /\ call.arg = <<"B">>
  /\ pre.display = [id \in Ids |-> IF id \in {"A", "B"} THEN "inline"
                                   ELSE IF id = "P" THEN "" ELSE "none"]
  /\ VisibleNonProcess(display) = {"A", "B", "f2", "C"}

\* C18: from every display, a call of showElement, showElements, showNext or scrollTo
\* (or of any function but hideAll and start) hides nothing: whatever was visible
\* before the call is visible after it.
C18_OnlyHideAllAndStartHide ==
  /\ (pc = "returned" /\ call.op \in {"showElement", "showElements", "showNext", "scrollTo"})
       => VisibleSet(pre.display) \subseteq VisibleSet(display)
  /\ (pc = "returned" /\ ~ (VisibleSet(pre.display) \subseteq VisibleSet(display)))
       => call.op \in {"hideAll", "start"}

C18_Witness ==
  /\ Returned("showElements")
  /\ loaded = "fork"
  /\ call.arg = <<"G">>
  /\ VisibleSet(pre.display) = {"P", "T", "g1", "g2"}
  /\ VisibleSet(display) = {"P", "T", "g1", "g2", "G"}

\* the entries whose handler creates a shape
CreationEntries ==
  {"create.start-event", "create.end-event", "create.sword",
   "create.story", "create.riddle", "create.monster"}

\* C16: building the palette entries calls no collaborator and creates no shape; a
\* creation entry's handler, fired by click or by dragstart, calls
\* elementFactory.createShape once with the type of the entry, then setLabel once on
\* that shape if the entry has a preset label, then create.start once with the event
\* and that shape, and nothing before, between or after on these collaborators;
\* create.story, create.riddle and create.monster have the type bpmn:CallActivity and
\* three different preset labels.
C16_CreationHandlerSequence ==
  /\ paletteLast.op = "getPaletteEntries" =>
       (paletteCalls = <<>> /\ Len(createdShapes) = paletteLast.before)
  /\ (paletteLast.op = "trigger" /\ paletteLast.entry \in CreationEntries) =>
       LET entry == paletteEntries[paletteLast.entry]
           shape == paletteLast.before + 1
           created == [fn |-> "elementFactory.createShape", shape |-> shape,
                       arg |-> entry.type]
           labelled == [fn |-> "setLabel", shape |-> shape, arg |-> entry.label]
           started == [fn |-> "create.start", shape |-> shape, arg |-> paletteLast.event]
       IN /\ Len(createdShapes) = shape
          /\ createdShapes[shape].type = entry.type
          /\ createdShapes[shape].label = entry.label
          /\ paletteCalls = IF entry.label # Null THEN <<created, labelled, started>>
                                                  ELSE <<created, started>>
  /\ DOMAIN paletteEntries # {} =>
       /\ CreationEntries \subseteq DOMAIN paletteEntries
       /\ \A name \in {"create.story", "create.riddle", "create.monster"} :
            /\ paletteEntries[name].type = "bpmn:CallActivity"
            /\ paletteEntries[name].label # Null
       /\ Cardinality({paletteEntries[name].label :
                         name \in {"create.story", "create.riddle", "create.monster"}}) = 3

C16_Witness ==
  /\ paletteLast = [op |-> "trigger", entry |-> "create.riddle", event |-> "dragstart",
                    before |-> 1]
  /\ createdShapes[1].type = "bpmn:StartEvent"
  /\ createdShapes[2] = [type |-> "bpmn:CallActivity", label |-> "Riddle",
                         isExpanded |-> "undefined"]
  /\ paletteCalls =
       << [fn |-> "elementFactory.createShape", shape |-> 2, arg |-> "bpmn:CallActivity"],
          [fn |-> "setLabel", shape |-> 2, arg |-> "Riddle"],
          [fn |-> "create.start", shape |-> 2, arg |-> "dragstart"] >>

\* the images among the children of a graphics, and the children that were there
ImagesOf(children) == SelectSeq(children, LAMBDA c : c.tag = "image")

\* C17: after a 'shape.added' event the graphics hold the children they held, in their
\* order, and: for a label no image; for a Task (or a subtype) and a CallActivity the
\* scroll image as first child; for a StartEvent / an EndEvent the green / red diamond
\* as last child at (0, 0) with the element's width and height; for a Gateway of any
\* subtype the swords as last child with width + 2 and height + 2; for a SubProcess (or
\* a subtype) the hell image as first child; for any other type no image.  No element
\* gets more than one image.
C17_IconByType ==
  addedShape # NoShape =>
    LET bo == addedShape.bo
        w == addedShape.width
        h == addedShape.height
        images == ImagesOf(addedGfx)
        first == addedGfx[1]
        last == addedGfx[Len(addedGfx)]
        Icon(uri, x, y, width, height) ==
          [tag |-> "image", n |-> 0, uri |-> uri, x |-> x, y |-> y,
           width |-> width, height |-> height]
    IN /\ Len(images) <= 1
       /\ \E n \in 1..Len(addedGfx) :
            SelectSeq(addedGfx, LAMBDA c : c.tag = "g") = ExistingChildren(n)
       /\ CASE addedShape.type = "label" -> images = <<>>
            [] bo \in {"bpmn:Task", "bpmn:UserTask", "bpmn:CallActivity"} ->
                 /\ Len(images) = 1
                 /\ first = Icon("resources/scroll.png", -20, -20, w + 40, h + 40)
            [] bo = "bpmn:StartEvent" ->
                 /\ Len(images) = 1
                 /\ last = Icon("resources/green-diamond.png", 0, 0, w, h)
            [] bo = "bpmn:EndEvent" ->
                 /\ Len(images) = 1
                 /\ last = Icon("resources/red-diamond.png", 0, 0, w, h)
            [] bo \in {"bpmn:ExclusiveGateway", "bpmn:ParallelGateway"} ->
                 /\ Len(images) = 1
                 /\ last = Icon("resources/swords.png", 0, 0, w + 2, h + 2)
            [] bo \in {"bpmn:SubProcess", "bpmn:Transaction"} ->
                 /\ Len(images) = 1
                 /\ first = Icon("resources/hell.png", 0, 0, w, h)
            [] OTHER -> images = <<>>

C17_Witness ==
  /\ addedShape = [type |-> "bpmn:UserTask", bo |-> "bpmn:UserTask",
                   width |-> 100, height |-> 36]
  /\ Len(addedGfx) = 3
  /\ addedGfx[1].uri = "resources/scroll.png"
  /\ addedGfx[2] = ExistingChildren(2)[1]
  /\ addedGfx[3] = ExistingChildren(2)[2]

\* the viewer as it stands, no call running
Viewer == World(NewCall)

\* done(null, ...) has been invoked for the call
Succeeded(c) == InList(c.doneCalls, "ok")

\* C15: an import that began after clear() (the diagram held then was destroyed) and
\* has succeeded has created a diagram of its own; as long as no later import has
\* created another, get resolves that diagram and none created before it, every one of
\* which is destroyed.  The container leaves the document in a call of destroy() only,
\* so after clear() and calls other than destroy() it is still attached.
C15_ReusableAfterClear ==
  /\ [](\A i \in 1..Len(calls) :
          (calls[i].cleared /\ Succeeded(calls[i]) /\ calls[i].diagram = Len(diagrams)) =>
            /\ calls[i].diagram # 0
            /\ viewerGet(Viewer) = [threw |-> FALSE, diagram |-> calls[i].diagram]
            /\ \A k \in 1..(calls[i].diagram - 1) :
                 diagrams[k].destroyed /\ viewerGet(Viewer).diagram # k)
  /\ [][vContainer' # vContainer => Destroy]_vars

C15_Witness ==
  /\ Len(calls) = 2
  /\ calls[1].diagram = 1
  /\ calls[2] = [stage |-> "finished", doneCalls |-> <<"ok">>, diagram |-> 2,
                  cleared |-> TRUE]
  /\ diagrams[1].destroyed /\ ~ diagrams[2].destroyed
  /\ viewerGet(Viewer) = [threw |-> FALSE, diagram |-> 2]
  /\ vContainer = "attached"

\* how often a handler is on an event bus
Occurrences(bus, handler) == Cardinality({j \in 1..Len(bus) : bus[j] = handler})

\* C19: the handlers given to on() are numbered in the order of registration.  On the
\* event bus of every diagram, every handler that was registered when the diagram was
\* created is registered exactly once, no handler is registered twice, the handlers
\* stand in the order of registration, and the diagram the viewer holds has every
\* handler registered so far.
C19_ListenersOncePerDiagram ==
  \A k \in 1..Len(diagrams) :
    LET bus == diagrams[k].bus IN
    /\ \A handler \in 1..diagrams[k].since : Occurrences(bus, handler) = 1
    /\ \A handler \in 1..Len(vListeners) : Occurrences(bus, handler) <= 1
    /\ \A j \in 1..(Len(bus) - 1) : bus[j] < bus[j + 1]
    /\ k = vDiagram => \A handler \in 1..Len(vListeners) : Occurrences(bus, handler) = 1

C19_Witness ==
  /\ Len(diagrams) = 2
  /\ vListeners = <<1, 2>>
  /\ diagrams[1].since = 1 /\ diagrams[1].bus = <<1, 2>>
  /\ diagrams[2].since = 2 /\ diagrams[2].bus = <<1, 2>>

\* C20: of the diagrams the viewer has created at most one is not destroyed; every
\* diagram but the last created is destroyed; and the viewer holds the last created.
C20_AtMostOneLiveDiagram ==
  /\ Cardinality({k \in 1..Len(diagrams) : ~ diagrams[k].destroyed}) <= 1
  /\ \A k \in 1..(Len(diagrams) - 1) : diagrams[k].destroyed
  /\ vDiagram = Len(diagrams)

C20_Witness ==
  /\ Len(diagrams) = 2
  /\ Len(calls) = 2
  /\ ~ calls[2].cleared
  /\ diagrams[1].destroyed /\ ~ diagrams[2].destroyed
  /\ vDiagram = 2

\* C21: from every display, a call of hideAll, start, showElement, showElements or
\* showNext calls neither zoomScroll.reset nor zoomScroll.scroll and leaves the viewport
\* where it was; a call of scrollTo (or of bla) leaves the display of every element and
\* connection as it was.
C21_VisibilityAndCameraIndependent ==
  /\ (pc = "returned"
        /\ call.op \in {"hideAll", "start", "showElement", "showElements", "showNext"}) =>
       (zsCalls = <<>> /\ camera = pre.camera)
  /\ (pc = "returned" /\ call.op \in {"scrollTo", "bla"}) => display = pre.display

C21_Witness ==
  /\ Returned("scrollTo")
  /\ loaded = "linear"
  /\ call.arg = <<"C">>
  /\ VisibleSet(pre.display) = {"P", "A", "B"}
  /\ display = pre.display
  /\ zsCalls = << <<"reset", 0, 0>>, <<"scroll", -125, -15>> >>
  /\ camera = [x |-> -125, y |-> -15]

====
